---- MODULE Spec2Model ----
(***************************************************************************)
(* Model of src/render.js: the render orchestrator (validation, viewport   *)
(* resolution, one engine render pass, PNG encoding) and the resource      *)
(* request handler it hands to the engine (mapOptions.request) with its    *)
(* three adapters getTileJSON, getTile and getRemoteTile.                  *)
(*                                                                         *)
(* Strings are sequences of one-character strings, so that startsWith,     *)
(* split and the tile regular expression are computed as the code computes *)
(* them.  Optional values (null / undefined in the source) are records     *)
(* Null and Some(v).                                                       *)
(***************************************************************************)
EXTENDS Integers, Sequences, FiniteSets, TLC

VARIABLES
    opts,      \* the arguments of the one call to render
    pc,        \* position of the orchestrator
    promise,   \* the promise render returned
    engine,    \* what the rendering engine was asked to do (maps constructed,
               \* styles loaded, render calls) and how its render passes ended
    encoder,   \* the calls made to the image encoder (sharp)
    uncaught,  \* errors thrown where nothing catches them, and rejected
               \* promises nobody handles
    viewport,  \* what geoViewport.viewport answered, Null if it was not called
    reqs,      \* the requests the engine handed to mapOptions.request
    handles,   \* the archive handles that are open
    http       \* the HTTP requests issued, in the order of their issue

vars == <<opts, pc, promise, engine, encoder, uncaught, viewport, reqs, handles, http>>

----------------------------------------------------------------------------
(* Bounds *)

\* the number of requests the engine issues during the render pass
MaxReq == 2

----------------------------------------------------------------------------
(* null / undefined *)

Null == [isNull |-> TRUE]
Some(v) == [isNull |-> FALSE, val |-> v]

----------------------------------------------------------------------------
(* Strings *)

Digits == {"0", "1", "2", "3", "4", "5", "6", "7", "8", "9"}

\* String.prototype.startsWith
StartsWith(s, p) == Len(s) >= Len(p) /\ SubSeq(s, 1, Len(p)) = p

\* TRUE iff p occurs in s at index i
OccursAt(s, p, i) == i >= 1 /\ i + Len(p) - 1 <= Len(s) /\ SubSeq(s, i, i + Len(p) - 1) = p

\* index of the first occurrence of p in s at or after index from; 0 if none
IndexOf(s, p, from) ==
    LET hits == {i \in from..Len(s) : OccursAt(s, p, i)}
    IN  IF hits = {} THEN 0 ELSE CHOOSE i \in hits : \A j \in hits : i <= j

\* s.split(sep)[1]: the text between the first and the second occurrence of
\* sep.  A string without sep has no element 1 (undefined).
SplitSecond(s, sep) ==
    LET first == IndexOf(s, sep, 1)
        start == first + Len(sep)
        next  == IndexOf(s, sep, start)
    IN  IF first = 0 THEN Null
        ELSE IF next = 0 THEN Some(SubSeq(s, start, Len(s)))
        ELSE Some(SubSeq(s, start, next - 1))

\* s.split(sep)[0]
SplitFirst(s, sep) ==
    LET first == IndexOf(s, sep, 1)
    IN  IF first = 0 THEN s ELSE SubSeq(s, 1, first - 1)

SchemeSep == <<":", "/", "/">>
Slash == <<"/">>
MBTilesScheme == <<"m", "b", "t", "i", "l", "e", "s", ":", "/", "/">>
MBTilesExt == <<".", "m", "b", "t", "i", "l", "e", "s">>

\* the character classes of TILE_REGEXP
InClass(c, cls) == IF cls = "digit" THEN c \in Digits ELSE c # "/"

\* index of the last character of the longest run of cls starting at i
\* (i - 1 when the run is empty)
RECURSIVE RunEnd(_, _, _)
RunEnd(s, i, cls) ==
    IF i <= Len(s) /\ InClass(s[i], cls) THEN RunEnd(s, i + 1, cls) ELSE i - 1

\* TILE_REGEXP matched at index i: the literal mbtiles://, ([^/]+), /, (\d+),
\* /, (\d+), /, (\d+).  Each group is greedy and is followed by a character
\* outside its class, so the longest run is the only candidate.
TileRegexpAt(url, i) ==
    LET n0 == i + Len(MBTilesScheme)
        n1 == RunEnd(url, n0, "notslash")
        z0 == n1 + 2
        z1 == RunEnd(url, z0, "digit")
        x0 == z1 + 2
        x1 == RunEnd(url, x0, "digit")
        y0 == x1 + 2
        y1 == RunEnd(url, y0, "digit")
        ok == /\ OccursAt(url, MBTilesScheme, i)
              /\ n1 >= n0 /\ OccursAt(url, Slash, n1 + 1)
              /\ z1 >= z0 /\ OccursAt(url, Slash, z1 + 1)
              /\ x1 >= x0 /\ OccursAt(url, Slash, x1 + 1)
              /\ y1 >= y0
    IN  IF ok
        THEN Some(<<SubSeq(url, i, y1), SubSeq(url, n0, n1), SubSeq(url, z0, z1),
                    SubSeq(url, x0, x1), SubSeq(url, y0, y1)>>)
        ELSE Null

\* url.match(TILE_REGEXP): the leftmost match, or null
TILE_REGEXP(url) ==
    LET hits == {i \in 1..Len(url) : ~TileRegexpAt(url, i).isNull}
    IN  IF hits = {} THEN Null
        ELSE TileRegexpAt(url, CHOOSE i \in hits : \A j \in hits : i <= j)

\* resolveNamefromURL: url.split('://')[1].split('/')[0]
resolveNamefromURL(url) == SplitFirst(SplitSecond(url, SchemeSep).val, Slash)

\* resolveMBTilesURL: path.format({root: tilePath, name, ext: '.mbtiles'}),
\* which is root, name and ext concatenated (the name and ext alone when the
\* root is null)
resolveMBTilesURL(tilePath, url) ==
    (IF tilePath.isNull THEN <<>> ELSE tilePath.val)
        \o resolveNamefromURL(url) \o MBTilesExt

----------------------------------------------------------------------------
(* Errors and the promise *)

\* an Error: its message and, for the errors of the archive store and of the
\* HTTP transport, the file or URL it is about
ErrorAbout(msg, what) == [message |-> msg, about |-> what]

Error(msg) == ErrorAbout(msg, <<>>)

\* a JavaScript number used as a condition: 0 is falsy
Truthy(n) == n # 0

Abs(n) == IF n < 0 THEN -n ELSE n

Max(a, b) == IF a >= b THEN a ELSE b

\* the promise state after resolve(v) / after the executor threw e: only the
\* first settlement takes effect, every one is counted
Resolved(p, v) ==
    IF p.state = "pending"
    THEN [state |-> "resolved", value |-> Some(v), settles |-> p.settles + 1]
    ELSE [p EXCEPT !.settles = @ + 1]

Rejected(p, e) ==
    IF p.state = "pending"
    THEN [state |-> "rejected", value |-> Some(e), settles |-> p.settles + 1]
    ELSE [p EXCEPT !.settles = @ + 1]

----------------------------------------------------------------------------
(* render: validation and viewport resolution (lines 162-203) *)

MinZoom == 0
MaxZoom == 22
MaxLongitude == 180
MaxLatitude == 90
CenterLength == 2
BoundsLength == 4

\* Validate without the latitude check of lines 182-184
Validate_NoLatitude(o) ==
    IF o.style.isNull
    THEN Some(Error("style is a required parameter"))
    ELSE IF ~(Truthy(o.width) /\ Truthy(o.height))
    THEN Some(Error("width and height are required parameters and must be non-zero"))
    ELSE IF ~o.center.isNull /\ Len(o.center.val) # CenterLength
    THEN Some(Error("Center must be longitude,latitude"))
    ELSE IF ~o.center.isNull /\ Abs(o.center.val[1]) > MaxLongitude
    THEN Some(Error("Center longitude is outside world bounds"))
    ELSE IF ~o.zoom.isNull /\ (o.zoom.val < MinZoom \/ o.zoom.val > MaxZoom)
    THEN Some(Error("Zoom level is outside supported range"))
    ELSE IF ~o.bounds.isNull /\ Len(o.bounds.val) # BoundsLength
    THEN Some(Error("Bounds must be west,south,east,north"))
    ELSE Null

\* the checks of lines 166-195 in order: the error thrown, or Null
Validate(o) ==
    IF o.style.isNull
    THEN Some(Error("style is a required parameter"))
    ELSE IF ~(Truthy(o.width) /\ Truthy(o.height))
    THEN Some(Error("width and height are required parameters and must be non-zero"))
    ELSE IF ~o.center.isNull /\ Len(o.center.val) # CenterLength
    THEN Some(Error("Center must be longitude,latitude"))
    ELSE IF ~o.center.isNull /\ Abs(o.center.val[1]) > MaxLongitude
    THEN Some(Error("Center longitude is outside world bounds"))
    ELSE IF ~o.center.isNull /\ Abs(o.center.val[2]) > MaxLatitude
    THEN Some(Error("Center latitude is outside world bounds"))
    ELSE IF ~o.zoom.isNull /\ (o.zoom.val < MinZoom \/ o.zoom.val > MaxZoom)
    THEN Some(Error("Zoom level is outside supported range"))
    ELSE IF ~o.bounds.isNull /\ Len(o.bounds.val) # BoundsLength
    THEN Some(Error("Bounds must be west,south,east,north"))
    ELSE Null

\* line 198: whether geoViewport.viewport is called
NeedsViewport(o) == ~o.bounds.isNull /\ (o.zoom.isNull \/ o.center.isNull)

\* ResolveViewport without the clamp of line 200 at zero
ResolveViewport_NoClamp(o, vp) ==
    IF NeedsViewport(o)
    THEN [zoom |-> Some(vp.zoom - 1), center |-> Some(vp.center)]
    ELSE [zoom |-> o.zoom, center |-> o.center]

\* lines 198-203: zoom and center as handed to the engine; vp is what
\* geoViewport.viewport(bounds, [width, height]) returned
ResolveViewport(o, vp) ==
    IF NeedsViewport(o)
    THEN [zoom |-> Some(Max(vp.zoom - 1, 0)), center |-> Some(vp.center)]
    ELSE [zoom |-> o.zoom, center |-> o.center]

----------------------------------------------------------------------------
(* Inputs *)

Styles == {Null, Some("style")}
Dims == {-1, 0, 1}
Centers == {Null, Some(<<0>>), Some(<<181, 0>>), Some(<<0, -91>>), Some(<<-180, 90>>)}
Zooms == {Null, Some(-1), Some(22), Some(23)}
Boundses == {Null, Some(<<-10, -10, 10>>), Some(<<-10, -10, 10, 10>>)}
TilePaths == {Some(<<"/", "t", "/">>)}

\* the answers of geoViewport.viewport (an external library): an integral
\* zoom that is clamped to be at least 0, and a center
Viewports == [zoom : {0, 2}, center : {<<0, 0>>}]

RenderOptions ==
    [style : Styles, width : Dims, height : Dims, center : Centers, zoom : Zooms,
     bounds : Boundses, tilePath : TilePaths]

\* the render calls under which the engine's requests are explored: one with
\* a center and a zoom, one with bounds only
EngineOptions ==
    {o \in RenderOptions :
        /\ Validate(o).isNull
        /\ o.width = 1 /\ o.height = 1
        /\ o.bounds.isNull = ~(o.center.isNull /\ o.zoom.isNull)
        /\ o.center.isNull = o.zoom.isNull}

----------------------------------------------------------------------------
(* render: the engine and the encoder (lines 237-256) *)

Channels == 4

\* the outcomes of the engine's render pass: an error or a raw pixel buffer
EngineErrors == {Error("render pass failed")}
EngineBuffers == {"pixels"}

\* the outcomes of sharp(...).png().toBuffer(): the encoded bytes of a raw
\* buffer, or a rejection
PNG(call) == <<"png", call.buffer, call.width, call.height>>
EncoderErrors == {Error("encoder failed")}

\* lines 162-246: the promise executor.  A throw inside the executor rejects
\* the promise; otherwise the map is constructed and loaded and map.render
\* is called once with the resolved viewport.
RenderCall(vp) ==
    /\ pc = "start"
    /\ LET invalid == Validate(opts)
           pending == [state |-> "pending", value |-> Null, settles |-> 0]
           view    == ResolveViewport(opts, vp)
       IN  IF ~invalid.isNull
           THEN /\ promise' = Rejected(pending, invalid.val)
                /\ pc' = "done"
                /\ UNCHANGED <<engine, viewport>>
           ELSE /\ promise' = pending
                /\ viewport' = IF NeedsViewport(opts) THEN Some(vp) ELSE Null
                /\ engine' = [engine EXCEPT
                                 !.maps = @ + 1,
                                 !.loads = @ + 1,
                                 !.renders = Append(@,
                                     [zoom |-> view.zoom, center |-> view.center,
                                      height |-> opts.height, width |-> opts.width])]
                /\ pc' = "rendering"
    /\ UNCHANGED <<opts, encoder, uncaught, reqs, handles, http>>

\* RenderFailed handing the missing buffer to the encoder after an error
RenderFailed_StillEncodes(err) ==
    /\ pc = "rendering"
    /\ engine' = [engine EXCEPT !.passes = Append(@, [err |-> Some(err), buffer |-> Null])]
    /\ encoder' = Append(encoder, [buffer |-> "undefined", width |-> opts.width,
                                   height |-> opts.height, channels |-> Channels])
    /\ pc' = "encoding"
    /\ UNCHANGED <<opts, promise, uncaught, viewport, reqs, handles, http>>

\* RenderFailed asking the engine for another render pass after an error
RenderFailed_Retry(err) ==
    /\ pc = "rendering"
    /\ engine' = [engine EXCEPT
                     !.passes = Append(@, [err |-> Some(err), buffer |-> Null]),
                     !.renders = Append(@, @[Len(@)])]
    /\ UNCHANGED <<opts, pc, promise, encoder, uncaught, viewport, reqs, handles, http>>

\* lines 247-255 with err set: `if (err) throw err` runs in the engine's
\* callback, after the executor has returned, so nothing catches it and the
\* promise is not touched
RenderFailed(err) ==
    /\ pc = "rendering"
    /\ engine' = [engine EXCEPT !.passes = Append(@, [err |-> Some(err), buffer |-> Null])]
    /\ uncaught' = uncaught \cup {[where |-> "map.render callback", error |-> err]}
    /\ pc' = "done"
    /\ UNCHANGED <<opts, promise, encoder, viewport, reqs, handles, http>>

\* lines 247-255 with a buffer: the buffer goes to sharp with the call's
\* width and height
RenderSucceeded(buffer) ==
    /\ pc = "rendering"
    /\ engine' = [engine EXCEPT !.passes = Append(@, [err |-> Null, buffer |-> Some(buffer)])]
    /\ encoder' = Append(encoder, [buffer |-> buffer, width |-> opts.width,
                                   height |-> opts.height, channels |-> Channels])
    /\ pc' = "encoding"
    /\ UNCHANGED <<opts, promise, uncaught, viewport, reqs, handles, http>>

\* line 254: toBuffer() fulfilled, then(resolve) resolves render's promise
EncoderSucceeded ==
    /\ pc = "encoding"
    /\ promise' = Resolved(promise, PNG(encoder[Len(encoder)]))
    /\ pc' = "done"
    /\ UNCHANGED <<opts, engine, encoder, uncaught, viewport, reqs, handles, http>>

\* line 254: toBuffer() rejected: then(resolve) has no rejection handler, so
\* the rejection reaches nobody and render's promise is not touched
EncoderFailed(err) ==
    /\ pc = "encoding"
    /\ uncaught' = uncaught \cup {[where |-> "unhandled rejection", error |-> err]}
    /\ pc' = "done"
    /\ UNCHANGED <<opts, promise, engine, encoder, viewport, reqs, handles, http>>

----------------------------------------------------------------------------
(* The requests of the engine and the answers of the outside world *)

KindSource == 2
KindTile == 3

\* the resource kinds the engine asks for: a kind the handler has no case
\* for, source metadata, a tile
Kinds == {1, KindSource, KindTile}

LocalTileURL == MBTilesScheme \o <<"a", "/", "1", "/", "2", "/", "3">>
OtherTileURL == MBTilesScheme \o <<"b", "/", "3", "/", "2", "/", "1">>
LocalSourceURL == MBTilesScheme \o <<"a">>
RemoteURL == <<"h", "t", "t", "p", "s", ":", "/", "/", "h", "/", "1">>

URLs == {LocalTileURL, OtherTileURL, LocalSourceURL, RemoteURL}

\* the archive store: opening a file fails or gives a handle; getInfo and
\* getTile fail or answer
OpenError(file) == ErrorAbout("SQLITE_CANTOPEN", file)
InfoError(file) == ErrorAbout("metadata query failed", file)
TileError(file) == ErrorAbout("Tile does not exist", file)
ArchiveInfo == [minzoom |-> 0, maxzoom |-> 14, center |-> <<0, 0, 0>>, bounds |-> <<-10, -10, 10, 10>>]
TileData(file, z, x, y) == [type |-> "tile", file |-> file, z |-> z, x |-> x, y |-> y]

\* the HTTP transport: a transport error, or a status, headers and a body.
\* A body of a non-200 answer is JSON with a message, JSON without one, or
\* not JSON.  url is the URL the answer was served for.
TransportError(url) == ErrorAbout("ECONNREFUSED", url)
HeaderNames == {"modified", "expires", "etag"}
Responses(url) ==
    {[err |-> Some(TransportError(url)), statusCode |-> 0, headers |-> {},
      body |-> "tile bytes", url |-> url]}
    \cup [err : {Null}, statusCode : {200}, headers : SUBSET HeaderNames,
          body : {"tile bytes"}, url : {url}]
    \cup [err : {Null}, statusCode : {404}, headers : {{}},
          body : {"json with message", "json without message", "not json"}, url : {url}]

\* JSON.parse(body).message: the parse throws on a body that is not JSON;
\* the message of an object without one is undefined
JSONParseMessage(body) ==
    IF body = "json with message" THEN [threw |-> Null, message |-> Some("not found")]
    ELSE IF body = "json without message" THEN [threw |-> Null, message |-> Null]
    ELSE [threw |-> Some(Error("SyntaxError: Unexpected token")), message |-> Null]

\* new Error(message): an undefined message gives the empty message
NewError(message) == Error(IF message.isNull THEN "" ELSE message.val)

----------------------------------------------------------------------------
(* The request handler (lines 208-234) and its adapters *)

\* a request the engine has not issued.  answers are the answers of the
\* archive store or of the transport to this request, calls the invocations
\* of its callback, escaped what the handler threw into the engine's stack.
NoRequest ==
    [st |-> "unused", url |-> <<>>, kind |-> 0, file |-> <<>>, zxy |-> <<>>,
     answers |-> <<>>, calls |-> <<>>, escaped |-> Null]

\* callback(err) and callback(null, result) as entries of a request's calls
WithError(err) == [err |-> Some(err), res |-> Null]
WithResult(res) == [err |-> Null, res |-> Some(res)]

\* callback(...) on request r, which ends in state st
Callback(r, call, st) == [r EXCEPT !.calls = Append(@, call), !.st = st]

\* the result objects
EmptyResult == [data |-> Null, modified |-> Null, expires |-> Null, etag |-> Null]
DataResult(data) == [EmptyResult EXCEPT !.data = Some(data)]

\* lines 34-38, the synchronous part of getTileJSON: the file name and the
\* service are resolved and the archive is opened
getTileJSON(tilePath, url) ==
    IF SplitSecond(url, SchemeSep).isNull
    THEN [threw |-> Some(Error("TypeError: Cannot read property 'split' of undefined")),
          st |-> "done", file |-> <<>>, zxy |-> <<>>]
    ELSE [threw |-> Null, st |-> "json_open",
          file |-> resolveMBTilesURL(tilePath, url), zxy |-> <<>>]

\* lines 78-83, the synchronous part of getTile: slicing the null that a
\* failed match returns throws; otherwise z, x and y are the last three
\* elements of the match and the archive is opened
getTile(tilePath, url) ==
    LET matches == TILE_REGEXP(url)
    IN  IF matches.isNull
        THEN [threw |-> Some(Error("TypeError: Cannot read property 'slice' of null")),
              st |-> "done", file |-> <<>>, zxy |-> <<>>]
        ELSE [threw |-> Null, st |-> "tile_open",
              file |-> resolveMBTilesURL(tilePath, url),
              zxy |-> SubSeq(matches.val, Len(matches.val) - 2, Len(matches.val))]

\* lines 115-121, the synchronous part of getRemoteTile: the HTTP request is
\* issued
getRemoteTile(url) == [threw |-> Null, st |-> "remote", file |-> <<>>, zxy |-> <<>>]

\* a request that no case of the switch handles
NotHandled == [threw |-> Null, st |-> "done", file |-> <<>>, zxy |-> <<>>]

\* Route with a source request for a non-local URL sent to the remote adapter
Route_SourceRemote(tilePath, url, kind) ==
    LET isMBTiles == StartsWith(url, MBTilesScheme)
    IN  IF kind = KindSource
        THEN IF isMBTiles THEN getTileJSON(tilePath, url) ELSE getRemoteTile(url)
        ELSE IF kind = KindTile
        THEN IF isMBTiles THEN getTile(tilePath, url) ELSE getRemoteTile(url)
        ELSE NotHandled

\* Route with every tile request sent to the remote adapter
Route_TileAlwaysRemote(tilePath, url, kind) ==
    LET isMBTiles == StartsWith(url, MBTilesScheme)
    IN  IF kind = KindSource
        THEN IF isMBTiles THEN getTileJSON(tilePath, url) ELSE NotHandled
        ELSE IF kind = KindTile
        THEN getRemoteTile(url)
        ELSE NotHandled

\* lines 209-229: the switch on kind
Route(tilePath, url, kind) ==
    LET isMBTiles == StartsWith(url, MBTilesScheme)
    IN  IF kind = KindSource
        THEN IF isMBTiles THEN getTileJSON(tilePath, url) ELSE NotHandled
        ELSE IF kind = KindTile
        THEN IF isMBTiles THEN getTile(tilePath, url) ELSE getRemoteTile(url)
        ELSE NotHandled

\* TryRoute without the try: what the adapter threw leaves the handler
TryRoute_NoCatch(tilePath, url, kind) ==
    LET out  == Route(tilePath, url, kind)
        base == [NoRequest EXCEPT !.url = url, !.kind = kind, !.file = out.file,
                                  !.zxy = out.zxy]
    IN  IF out.threw.isNull
        THEN [base EXCEPT !.st = out.st]
        ELSE [base EXCEPT !.st = "done", !.escaped = out.threw]

\* lines 212-233: the try around the switch; what the adapter threw is
\* handed to the callback
TryRoute(tilePath, url, kind) ==
    LET out  == Route(tilePath, url, kind)
        base == [NoRequest EXCEPT !.url = url, !.kind = kind, !.file = out.file,
                                  !.zxy = out.zxy]
    IN  IF out.threw.isNull
        THEN [base EXCEPT !.st = out.st]
        ELSE Callback(base, WithError(out.threw.val), "done")

\* mapOptions.request(req, callback): the engine hands over its i-th request
\* during the render pass
Request(i, url, kind) ==
    /\ pc = "rendering"
    /\ reqs[i].st = "unused"
    /\ \A j \in 1..(i - 1) : reqs[j].st # "unused"
    /\ reqs' = [reqs EXCEPT ![i] = TryRoute(opts.tilePath, url, kind)]
    /\ http' = IF reqs'[i].st = "remote" THEN Append(http, [id |-> i, url |-> url]) ELSE http
    /\ UNCHANGED <<opts, pc, promise, engine, encoder, uncaught, viewport, handles>>

----------------------------------------------------------------------------
(* The callbacks of the adapters *)

StatusOK == 200

\* TilesTemplate with the placeholders of x and y exchanged
TilesTemplate_SwappedXY(service) ==
    MBTilesScheme \o service \o <<"/", "{", "z", "}", "/", "{", "y", "}", "/", "{", "x", "}">>

\* line 56: the tiles template of the service
TilesTemplate(service) ==
    MBTilesScheme \o service \o <<"/", "{", "z", "}", "/", "{", "x", "}", "/", "{", "y", "}">>

\* lines 50-63: the TileJSON document, serialised into the result's data
TileJSON(url, info) ==
    [tilejson |-> "1.0.0", tiles |-> <<TilesTemplate(resolveNamefromURL(url))>>,
     minzoom |-> info.minzoom, maxzoom |-> info.maxzoom,
     center |-> info.center, bounds |-> info.bounds]

JSONBuffer(doc) == [type |-> "json", text |-> doc]

\* lines 38-43: the archive of a metadata request was opened, or not
getTileJSON_opened(r, err) ==
    IF ~err.isNull THEN Callback(r, WithError(err.val), "done")
    ELSE [r EXCEPT !.st = "json_info"]

\* lines 44-65: getInfo answered
getTileJSON_info(r, infoErr, info) ==
    IF ~infoErr.isNull THEN Callback(r, WithError(infoErr.val), "done")
    ELSE Callback(r, WithResult(DataResult(JSONBuffer(TileJSON(r.url, info)))), "done")

\* lines 83-87: the archive of a tile request was opened, or not
getTile_opened(r, err) ==
    IF ~err.isNull THEN Callback(r, WithError(err.val), "done")
    ELSE [r EXCEPT !.st = "tile_get"]

\* getTile_fetched without the return of line 93: the failed query is
\* answered twice
getTile_fetched_NoReturn(r, tileErr, data) ==
    IF ~tileErr.isNull
    THEN Callback(Callback(r, WithResult(EmptyResult), "done"),
                  WithResult(DataResult(data)), "done")
    ELSE Callback(r, WithResult(DataResult(data)), "done")

\* getTile_fetched handing the query's error to the callback
getTile_fetched_Propagate(r, tileErr, data) ==
    IF ~tileErr.isNull THEN Callback(r, WithError(tileErr.val), "done")
    ELSE Callback(r, WithResult(DataResult(data)), "done")

\* lines 89-103: getTile answered; a failed query is logged and answered
\* with an empty object
getTile_fetched(r, tileErr, data) ==
    IF ~tileErr.isNull THEN Callback(r, WithResult(EmptyResult), "done")
    ELSE Callback(r, WithResult(DataResult(data)), "done")

\* lines 126-140: the result built from a 200 answer
RemoteResult(res) ==
    [data     |-> Some([type |-> "body", body |-> res.body, url |-> res.url]),
     modified |-> IF "modified" \in res.headers THEN Some("Date(modified)") ELSE Null,
     expires  |-> IF "expires" \in res.headers THEN Some("Date(expires)") ELSE Null,
     etag     |-> IF "etag" \in res.headers THEN Some("etag") ELSE Null]

\* lines 122-144: the HTTP answer arrived.  threw is what the callback threw
\* into the transport's stack.
getRemoteTile_answered(r, res) ==
    IF ~res.err.isNull
    THEN [req |-> Callback(r, WithError(res.err.val), "done"), threw |-> Null]
    ELSE IF res.statusCode = StatusOK
    THEN [req |-> Callback(r, WithResult(RemoteResult(res)), "done"), threw |-> Null]
    ELSE LET parsed == JSONParseMessage(res.body)
         IN  IF ~parsed.threw.isNull
             THEN [req |-> [r EXCEPT !.st = "done"], threw |-> parsed.threw]
             ELSE [req |-> Callback(r, WithError(NewError(parsed.message)), "done"),
                   threw |-> Null]

\* the answers of the archive store as recorded with a request
Opened(err) == IF err.isNull THEN "opened" ELSE "open failed"
Queried(err) == IF err.isNull THEN "query answered" ELSE "query failed"
Answered(r, answer) == [r EXCEPT !.answers = Append(@, answer)]

\* new MBTiles(file, cb) of getTileJSON called back
TileJSONOpened(i, err) ==
    /\ reqs[i].st = "json_open"
    /\ reqs' = [reqs EXCEPT ![i] = getTileJSON_opened(Answered(@, Opened(err)), err)]
    /\ handles' = IF err.isNull THEN handles \cup {[id |-> i, file |-> reqs[i].file]}
                  ELSE handles
    /\ UNCHANGED <<opts, pc, promise, engine, encoder, uncaught, viewport, http>>

\* mbtiles.getInfo called back
TileJSONInfo(i, infoErr) ==
    /\ reqs[i].st = "json_info"
    /\ reqs' = [reqs EXCEPT ![i] = getTileJSON_info(Answered(@, Queried(infoErr)),
                                                     infoErr, ArchiveInfo)]
    /\ UNCHANGED <<opts, pc, promise, engine, encoder, uncaught, viewport, handles, http>>

\* new MBTiles(file, cb) of getTile called back
TileOpened(i, err) ==
    /\ reqs[i].st = "tile_open"
    /\ reqs' = [reqs EXCEPT ![i] = getTile_opened(Answered(@, Opened(err)), err)]
    /\ handles' = IF err.isNull THEN handles \cup {[id |-> i, file |-> reqs[i].file]}
                  ELSE handles
    /\ UNCHANGED <<opts, pc, promise, engine, encoder, uncaught, viewport, http>>

\* mbtiles.getTile(z, x, y, cb) called back: the store answers for the file
\* and coordinates it was asked for
TileFetched(i, failed) ==
    /\ reqs[i].st = "tile_get"
    /\ LET r == reqs[i]
           tileErr == IF failed THEN Some(TileError(r.file)) ELSE Null
       IN  reqs' = [reqs EXCEPT ![i] = getTile_fetched(Answered(@, Queried(tileErr)),
                        tileErr, TileData(r.file, r.zxy[1], r.zxy[2], r.zxy[3]))]
    /\ UNCHANGED <<opts, pc, promise, engine, encoder, uncaught, viewport, handles, http>>

\* webRequest called back
RemoteAnswered(i, res) ==
    /\ reqs[i].st = "remote"
    /\ LET out == getRemoteTile_answered(Answered(reqs[i], res), res)
       IN  /\ reqs' = [reqs EXCEPT ![i] = out.req]
           /\ uncaught' = IF out.threw.isNull THEN uncaught
                          ELSE uncaught \cup {[where |-> "webRequest callback",
                                               error |-> out.threw.val]}
    /\ UNCHANGED <<opts, pc, promise, engine, encoder, viewport, handles, http>>

----------------------------------------------------------------------------
(* The specification *)

\* the state after construction, before render is called with one of options
InitWith(options) ==
    /\ opts \in options
    /\ pc = "start"
    /\ promise = [state |-> "none", value |-> Null, settles |-> 0]
    /\ engine = [maps |-> 0, loads |-> 0, renders |-> <<>>, passes |-> <<>>]
    /\ encoder = <<>>
    /\ uncaught = {}
    /\ viewport = Null
    /\ reqs = [i \in 1..MaxReq |-> NoRequest]
    /\ handles = {}
    /\ http = <<>>

Render == \E vp \in Viewports : RenderCall(vp)

RenderCallback ==
    \/ \E err \in EngineErrors : RenderFailed(err)
    \/ \E buffer \in EngineBuffers : RenderSucceeded(buffer)

EncoderCallback ==
    \/ EncoderSucceeded
    \/ \E err \in EncoderErrors : EncoderFailed(err)

Dispatch == \E i \in 1..MaxReq, url \in URLs, kind \in Kinds : Request(i, url, kind)

ArchiveCallback ==
    \E i \in 1..MaxReq :
        \/ \E err \in {Null, Some(OpenError(reqs[i].file))} : TileJSONOpened(i, err)
        \/ \E err \in {Null, Some(InfoError(reqs[i].file))} : TileJSONInfo(i, err)
        \/ \E err \in {Null, Some(OpenError(reqs[i].file))} : TileOpened(i, err)
        \/ \E failed \in BOOLEAN : TileFetched(i, failed)

TransportCallback ==
    \E i \in 1..MaxReq : \E res \in Responses(reqs[i].url) : RemoteAnswered(i, res)

Next ==
    \/ Render
    \/ RenderCallback
    \/ EncoderCallback
    \/ Dispatch
    \/ ArchiveCallback
    \/ TransportCallback

\* The whole program: a render call that passes validation and the resource
\* requests the engine issues during its render pass.
Init == InitWith(EngineOptions)

Spec == Init /\ [][Next]_vars

\* The render call over all the inputs, for a style whose rendering requests
\* no resource.
RenderInit == InitWith(RenderOptions)

RenderNext ==
    \/ Render
    \/ RenderCallback
    \/ EncoderCallback

RenderSpec == RenderInit /\ [][RenderNext]_vars

----------------------------------------------------------------------------
(* Properties of the request handler, checked under Spec *)

IsLocal(url) == StartsWith(url, MBTilesScheme)

\* the requests the handler has a case for
Handled(r) == r.kind = KindTile \/ (r.kind = KindSource /\ IsLocal(r.url))

HasHandle(i) == \E h \in handles : h.id = i
HasFetch(i) == \E k \in 1..Len(http) : http[k].id = i

\* C1: whatever the adapter a request is routed to and whatever the archive
\* store or the transport answers, the request's callback is invoked at most
\* once.
C1_CallbackAtMostOnce == \A i \in 1..MaxReq : Len(reqs[i].calls) <= 1

\* C1: a local tile request whose query failed and a remote tile request have
\* both been answered, each with one callback invocation.
C1_Witness ==
    \E i, j \in 1..MaxReq :
        /\ reqs[i].kind = KindTile /\ reqs[i].url = LocalTileURL
        /\ reqs[i].st = "done" /\ reqs[i].answers = <<"opened", "query failed">>
        /\ Len(reqs[i].calls) = 1
        /\ reqs[j].kind = KindTile /\ reqs[j].url = RemoteURL
        /\ reqs[j].st = "done" /\ Len(reqs[j].calls) = 1

\* C2: once the archive store or the transport has answered a request the
\* handler has a case for, the request's callback has been invoked (with an
\* error or a result), also after a non-200 answer whose body is not JSON.
C2_HandledRequestCalledBack ==
    \A i \in 1..MaxReq :
        (Handled(reqs[i]) /\ reqs[i].st = "done") => Len(reqs[i].calls) >= 1

\* C8: nothing thrown while the handler processes a request leaves the
\* handler; a tile request for a local URL without the z/x/y segments gets
\* exactly one callback invocation, with an error, and no archive is opened.
C8_NoEscape ==
    \A i \in 1..MaxReq :
        LET r == reqs[i]
        IN  /\ r.escaped.isNull
            /\ (r.kind = KindTile /\ IsLocal(r.url) /\ TILE_REGEXP(r.url).isNull) =>
                   /\ r.st = "done"
                   /\ Len(r.calls) = 1
                   /\ ~r.calls[1].err.isNull /\ r.calls[1].res.isNull
                   /\ r.answers = <<>>
                   /\ ~HasHandle(i)

\* C8: a tile request for the local URL without z/x/y has been handed over
\* and the render call has since finished.
C8_Witness ==
    \E i \in 1..MaxReq :
        /\ reqs[i].kind = KindTile /\ reqs[i].url = LocalSourceURL
        /\ Len(reqs[i].calls) = 1
        /\ pc = "done"

\* C9: a local tile request whose archive could not be opened is answered
\* with an error and no result; one whose archive opened is answered without
\* an error and with a result, whose data is empty if the query failed.
C9_OpenFailureVersusMissingTile ==
    \A i \in 1..MaxReq :
        LET r == reqs[i]
        IN  (r.kind = KindTile /\ IsLocal(r.url) /\ r.st = "done" /\ r.answers # <<>>) =>
                /\ Len(r.calls) = 1
                /\ r.answers[1] = "open failed" =>
                       ~r.calls[1].err.isNull /\ r.calls[1].res.isNull
                /\ r.answers[1] = "opened" =>
                       /\ r.calls[1].err.isNull /\ ~r.calls[1].res.isNull
                       /\ r.answers[2] = "query failed" => r.calls[1].res.val.data.isNull

\* C9: one local tile request failed to open its archive, another opened it
\* and its query failed, and both have been answered.
C9_Witness ==
    \E i, j \in 1..MaxReq :
        /\ reqs[i].kind = KindTile /\ IsLocal(reqs[i].url)
        /\ reqs[i].st = "done" /\ reqs[i].answers = <<"open failed">>
        /\ Len(reqs[i].calls) = 1
        /\ reqs[j].kind = KindTile /\ IsLocal(reqs[j].url)
        /\ reqs[j].st = "done" /\ reqs[j].answers = <<"opened", "query failed">>
        /\ Len(reqs[j].calls) = 1

\* C10: a source request for a non-local URL and a request of a kind other
\* than source or tile never get a callback invocation, an archive handle
\* or an HTTP request.
C10_UnhandledIsSilent ==
    \A i \in 1..MaxReq :
        LET r == reqs[i]
        IN  (r.st # "unused" /\ ~Handled(r)) =>
                /\ r.st = "done"
                /\ r.calls = <<>> /\ r.answers = <<>> /\ r.escaped.isNull
                /\ ~HasHandle(i) /\ ~HasFetch(i)

\* C10: a source request for the remote URL and a request of another kind
\* were handed over and the render call has since finished.
C10_Witness ==
    \E i, j \in 1..MaxReq :
        /\ reqs[i].kind = KindSource /\ reqs[i].url = RemoteURL
        /\ reqs[j].st # "unused" /\ reqs[j].kind \notin {KindSource, KindTile}
        /\ pc = "done"

\* the HTTP requests issued for request i
Fetches(i) == {k \in 1..Len(http) : http[k].id = i}

\* C11: a tile request for a non-local URL issues exactly one HTTP request,
\* for its URL, and never opens an archive; a tile request for a local URL
\* goes to the archive store (or is refused for its URL) and never issues an
\* HTTP request.
C11_OneBackendByScheme ==
    \A i \in 1..MaxReq :
        LET r == reqs[i]
        IN  r.kind = KindTile =>
                IF IsLocal(r.url)
                THEN /\ Fetches(i) = {}
                     /\ r.st \in {"tile_open", "tile_get", "done"}
                     /\ ~TILE_REGEXP(r.url).isNull =>
                            /\ r.file = resolveMBTilesURL(opts.tilePath, r.url)
                            /\ r.st = "done" => /\ r.answers # <<>>
                                                /\ r.answers[1] \in {"opened", "open failed"}
                ELSE /\ Cardinality(Fetches(i)) = 1
                     /\ \A k \in Fetches(i) : http[k].url = r.url
                     /\ r.st \in {"remote", "done"}
                     /\ r.file = <<>> /\ ~HasHandle(i)
                     /\ r.st = "done" => Len(r.answers) = 1 /\ r.answers[1] \in Responses(r.url)

\* C11: a tile request for the remote URL and one for a local URL have both
\* been answered, the local one by its opened archive.
C11_Witness ==
    \E i, j \in 1..MaxReq :
        /\ reqs[i].kind = KindTile /\ reqs[i].url = RemoteURL /\ reqs[i].st = "done"
        /\ reqs[j].kind = KindTile /\ reqs[j].url = OtherTileURL /\ reqs[j].st = "done"
        /\ HasHandle(j)

\* what a request's callback was called with is about that request: an
\* error of the store or the transport is about its file or URL, tile data
\* are those of its file and z/x/y, a metadata document names its service,
\* a body was served for its URL
C12_Own(r, call) ==
    /\ ~call.err.isNull =>
           \/ call.err.val.about = <<>>
           \/ IsLocal(r.url) /\ call.err.val.about = resolveMBTilesURL(opts.tilePath, r.url)
           \/ ~IsLocal(r.url) /\ call.err.val.about = r.url
    /\ (~call.res.isNull /\ ~call.res.val.data.isNull) =>
           LET data == call.res.val.data.val
           IN  IF r.kind = KindSource
               THEN /\ data.type = "json"
                    /\ data.text.tiles = <<TilesTemplate(resolveNamefromURL(r.url))>>
               ELSE IF IsLocal(r.url)
               THEN /\ data.type = "tile"
                    /\ data.file = resolveMBTilesURL(opts.tilePath, r.url)
                    /\ <<data.z, data.x, data.y>> = SubSeq(TILE_REGEXP(r.url).val, 3, 5)
               ELSE data.type = "body" /\ data.url = r.url

\* C12 (the part about the results): whatever the interleaving of the
\* answers, no callback is called with an error, data or z/x/y of another
\* request.
C12_NoContamination ==
    \A i \in 1..MaxReq :
        \A k \in 1..Len(reqs[i].calls) : C12_Own(reqs[i], reqs[i].calls[k])

\* C12: when the engine has handed over all its requests, every one the
\* handler has a case for is called back once it has been answered, with
\* what is about it and not about another request.
C12_ConcurrentRequestsIndependent ==
    /\ C12_NoContamination
    /\ (\A j \in 1..MaxReq : reqs[j].st # "unused") =>
           \A i \in 1..MaxReq :
               (Handled(reqs[i]) /\ reqs[i].st = "done") => Len(reqs[i].calls) = 1

\* C14: an answered remote tile request was called back once: with the
\* transport's error; or, for status 200, with a result whose data is the
\* body and whose modified, expires and etag are set exactly for the headers
\* present; or, for another status, with an error and no result, the error's
\* message being the message of a JSON body.
C14_RemoteOutcomes ==
    \A i \in 1..MaxReq :
        LET r == reqs[i]
        IN  (r.kind = KindTile /\ ~IsLocal(r.url) /\ r.st = "done") =>
                LET res == r.answers[1]
                IN  /\ Len(r.calls) = 1
                    /\ IF ~res.err.isNull
                       THEN r.calls[1] = [err |-> res.err, res |-> Null]
                       ELSE IF res.statusCode = 200
                       THEN /\ r.calls[1].err.isNull
                            /\ r.calls[1].res.val.data.val.body = res.body
                            /\ r.calls[1].res.val.modified.isNull = ("modified" \notin res.headers)
                            /\ r.calls[1].res.val.expires.isNull = ("expires" \notin res.headers)
                            /\ r.calls[1].res.val.etag.isNull = ("etag" \notin res.headers)
                       ELSE /\ ~r.calls[1].err.isNull /\ r.calls[1].res.isNull
                            /\ res.body = "json with message" =>
                                   r.calls[1].err.val.message = "not found"

\* C16: every open archive handle belongs to one request that is still
\* waiting for the archive store and is a handle on that request's file: once
\* a request's callback has been called its handle is released, and when no
\* request is in flight no handle is open.
C16_HandleScopedToQuery ==
    /\ \A h \in handles :
           /\ reqs[h.id].st \in {"json_info", "tile_get"}
           /\ h.file = reqs[h.id].file
    /\ \A i \in 1..MaxReq : Len(reqs[i].calls) >= 1 => ~HasHandle(i)
    /\ (\A i \in 1..MaxReq : reqs[i].st \in {"unused", "done"}) => handles = {}

\* a non-negative integer in decimal
RECURSIVE Decimal(_)
Decimal(n) ==
    LET digit == <<"0", "1", "2", "3", "4", "5", "6", "7", "8", "9">>[(n % 10) + 1]
    IN  IF n < 10 THEN <<digit>> ELSE Decimal(n \div 10) \o <<digit>>

\* s with the first occurrence of pat replaced by by
Replace(s, pat, by) ==
    LET at == IndexOf(s, pat, 1)
    IN  IF at = 0 THEN s
        ELSE SubSeq(s, 1, at - 1) \o by \o SubSeq(s, at + Len(pat), Len(s))

\* the tile URL the engine makes of a tiles template
TileURLOf(template, z, x, y) ==
    Replace(Replace(Replace(template, <<"{", "z", "}">>, Decimal(z)),
                    <<"{", "x", "}">>, Decimal(x)),
            <<"{", "y", "}">>, Decimal(y))

\* the coordinates the templates are tried with
C17_Coords == {0, 7, 12}

\* a tiles template, filled in with any z, x and y, is a local URL that the
\* tile pattern matches with that z, x and y, that getTile accepts, and that
\* resolves to the archive file of the source URL
C17_RoundTrips(template, source, tilePath) ==
    \A z, x, y \in C17_Coords :
        LET url == TileURLOf(template, z, x, y)
            zxy == <<Decimal(z), Decimal(x), Decimal(y)>>
        IN  /\ IsLocal(url)
            /\ ~TILE_REGEXP(url).isNull
            /\ SubSeq(TILE_REGEXP(url).val, 3, 5) = zxy
            /\ getTile(tilePath, url).zxy = zxy
            /\ resolveNamefromURL(url) = resolveNamefromURL(source)
            /\ resolveMBTilesURL(tilePath, url) = resolveMBTilesURL(tilePath, source)

\* C17_RoundTrips for every local URL as the source and the template of
\* every local URL
C17_Table ==
    LET local == {u \in URLs : IsLocal(u)}
    IN  [tilePath \in TilePaths |->
            [source \in local |->
                [template \in {TilesTemplate(resolveNamefromURL(u)) : u \in local} |->
                    C17_RoundTrips(template, source, tilePath)]]]

\* C17: the tiles template of the metadata a local source request was
\* answered with round-trips to the archive file of the source URL.
C17_TemplateRoundTrip ==
    \A i \in 1..MaxReq :
        LET r == reqs[i]
        IN  (/\ r.kind = KindSource /\ IsLocal(r.url) /\ r.st = "done"
             /\ Len(r.calls) = 1 /\ r.calls[1].err.isNull) =>
                LET tiles == r.calls[1].res.val.data.val.text.tiles
                IN  /\ Len(tiles) = 1
                    /\ r.file = resolveMBTilesURL(opts.tilePath, r.url)
                    /\ C17_Table[opts.tilePath][r.url][tiles[1]]

\* C17: source requests for two services were answered with metadata.
C17_Witness ==
    \E i, j \in 1..MaxReq :
        /\ reqs[i].kind = KindSource /\ reqs[i].url = LocalSourceURL
        /\ Len(reqs[i].calls) = 1 /\ reqs[i].calls[1].err.isNull
        /\ reqs[j].kind = KindSource /\ reqs[j].url = OtherTileURL
        /\ Len(reqs[j].calls) = 1 /\ reqs[j].calls[1].err.isNull

----------------------------------------------------------------------------
(* Properties of the render call, checked under RenderSpec *)

\* C3: when the engine's render pass ended with an error, render's promise
\* is rejected with that error.
C3_RenderErrorRejects ==
    \A k \in 1..Len(engine.passes) :
        ~engine.passes[k].err.isNull =>
            promise.state = "rejected" /\ promise.value = engine.passes[k].err

\* C4: the promise is never settled twice, and once the render call has run
\* to its end (validation, render pass, encoder) it has been settled.
C4_SettledExactlyOnce ==
    /\ promise.settles <= 1
    /\ pc = "done" => promise.settles = 1

\* C5: the engine receives the caller's center whenever one was supplied and
\* the caller's zoom whenever one was supplied.
C5_ExplicitNeverReplaced ==
    \A k \in 1..Len(engine.renders) :
        /\ ~opts.center.isNull => engine.renders[k].center = opts.center
        /\ ~opts.zoom.isNull => engine.renders[k].zoom = opts.zoom

\* C6: the engine's render is only invoked with a zoom and a center that are
\* not null.
C6_ViewportResolved ==
    \A k \in 1..Len(engine.renders) :
        ~engine.renders[k].zoom.isNull /\ ~engine.renders[k].center.isNull

\* the invalid inputs as C7 lists them
C7_CenterInRange(o) ==
    /\ ~o.center.isNull /\ Len(o.center.val) = 2
    /\ o.center.val[1] >= -180 /\ o.center.val[1] <= 180
    /\ o.center.val[2] >= -90 /\ o.center.val[2] <= 90

C7_Invalid(o) ==
    \/ o.style.isNull
    \/ o.width = 0 \/ o.height = 0
    \/ ~o.center.isNull /\ ~C7_CenterInRange(o)
    \/ ~o.zoom.isNull /\ (o.zoom.val < 0 \/ o.zoom.val > 22)
    \/ ~o.bounds.isNull /\ Len(o.bounds.val) # 4

C7_CenterMessages ==
    {"Center must be longitude,latitude", "Center longitude is outside world bounds",
     "Center latitude is outside world bounds"}

\* C7: after a render call with an invalid input the promise is rejected and
\* no map was constructed, loaded or rendered; a center in range is not
\* rejected by a center check.
C7_ValidationBeforeEngine ==
    pc # "start" =>
        /\ C7_Invalid(opts) =>
               /\ promise.state = "rejected"
               /\ engine.maps = 0 /\ engine.loads = 0 /\ engine.renders = <<>>
        /\ (C7_CenterInRange(opts) /\ promise.state = "rejected") =>
               promise.value.val.message \notin C7_CenterMessages

\* C7: render was called with a latitude out of range as the only invalid
\* input and the promise is rejected.
C7_Witness ==
    /\ pc = "done" /\ promise.state = "rejected"
    /\ ~opts.style.isNull /\ opts.width = 1 /\ opts.height = 1
    /\ opts.center = Some(<<0, -91>>) /\ opts.zoom = Some(22) /\ opts.bounds.isNull
    /\ engine.maps = 0

\* the zoom one level coarser than the fitted one, and not below zero
MarginZoom(fitted) == IF fitted - 1 > 0 THEN fitted - 1 ELSE 0

\* C13: after a render call that passed validation the engine's render was
\* invoked exactly once, also after the render pass failed, with the caller's
\* width and height and with the caller's zoom and center or, when
\* geoViewport.viewport was consulted, the zoom and center derived from its
\* answer.
C13_RenderedExactlyOnce ==
    (pc # "start" /\ Validate(opts).isNull) =>
        /\ Len(engine.renders) = 1
        /\ engine.renders[1].width = opts.width
        /\ engine.renders[1].height = opts.height
        /\ IF viewport.isNull
           THEN /\ engine.renders[1].zoom = opts.zoom
                /\ engine.renders[1].center = opts.center
           ELSE /\ engine.renders[1].zoom = Some(MarginZoom(viewport.val.zoom))
                /\ engine.renders[1].center = Some(viewport.val.center)

\* C13: the render pass of a valid call ended with an error and the engine
\* was not asked again.
C13_Witness ==
    /\ pc = "done" /\ Validate(opts).isNull
    /\ Len(engine.passes) = 1 /\ ~engine.passes[1].err.isNull
    /\ Len(engine.renders) = 1

\* C15: for a valid call with bounds and neither center nor zoom, the engine
\* is handed the zoom max(fitted zoom - 1, 0), which is not negative, and the
\* fitted center, the fitted viewport being geoViewport.viewport's answer.
C15_ZoomOutMargin ==
    (/\ pc # "start" /\ Validate(opts).isNull
     /\ ~opts.bounds.isNull /\ opts.center.isNull /\ opts.zoom.isNull) =>
        /\ ~viewport.isNull
        /\ engine.renders[1].zoom = Some(MarginZoom(viewport.val.zoom))
        /\ engine.renders[1].zoom.val >= 0
        /\ engine.renders[1].center = Some(viewport.val.center)

\* C15: the bounds of a call without center and zoom fitted at zoom 0, and
\* the engine was handed zoom 0.
C15_Witness ==
    /\ ~opts.bounds.isNull /\ opts.center.isNull /\ opts.zoom.isNull
    /\ ~viewport.isNull /\ viewport.val.zoom = 0
    /\ Len(engine.renders) = 1 /\ engine.renders[1].zoom = Some(0)

\* C18: the engine's render is only invoked with a width and a height
\* greater than zero; a call with a zero or negative width or height is
\* rejected and does not reach the engine.
C18_PositiveSize ==
    /\ \A k \in 1..Len(engine.renders) :
           engine.renders[k].width > 0 /\ engine.renders[k].height > 0
    /\ (pc # "start" /\ (opts.width <= 0 \/ opts.height <= 0)) =>
           promise.state = "rejected" /\ engine.maps = 0

\* C19: the encoder is called at most once, only after a render pass that
\* ended with a buffer and none that ended with an error, with that buffer
\* and the width and height the engine was given; the promise is resolved
\* only when the encoder has been called and is no longer awaited, with the
\* bytes the encoder made of that call.
C19_EncodeAfterRender ==
    /\ Len(encoder) <= 1
    /\ encoder # <<>> =>
           /\ Len(engine.passes) = 1 /\ engine.passes[1].err.isNull
           /\ Some(encoder[1].buffer) = engine.passes[1].buffer
           /\ encoder[1].width = engine.renders[1].width
           /\ encoder[1].height = engine.renders[1].height
    /\ (\E k \in 1..Len(engine.passes) : ~engine.passes[k].err.isNull) => encoder = <<>>
    /\ promise.state = "resolved" =>
           /\ Len(encoder) = 1 /\ pc = "done"
           /\ promise.value = Some(PNG(encoder[1]))

\* C19: a render pass ended with a buffer, the encoder produced its bytes
\* and the promise is resolved with them.
C19_Witness ==
    /\ promise.state = "resolved" /\ promise.settles = 1
    /\ Len(encoder) = 1 /\ encoder[1].buffer = "pixels"
    /\ opts.width = 1 /\ opts.height = 1

====
